---------------------------- MODULE Spec2Model ----------------------------
(***************************************************************************)
(* Model of the platform icon container encoders of                        *)
(* scripts/generate-all-icons.js: createIco (Windows .ico, little-endian)  *)
(* and createIcns (Apple .icns, big-endian); of generateIcons, which runs  *)
(* them; of the single-size script scripts/generate-icons.js; and of the   *)
(* React component LLMGatewaySettings.                                     *)
(*                                                                         *)
(* A Node Buffer is modelled as a sequence of bytes 0..255; byte offset k  *)
(* of the source is index k+1 of the sequence.  A Buffer write that throws *)
(* (ERR_OUT_OF_RANGE) is modelled by a "writer" record [ok, b] whose ok    *)
(* flag drops to FALSE; later writes are then skipped, as after a throw.   *)
(***************************************************************************)
EXTENDS Integers, Sequences, FiniteSets, TLC

VARIABLES
    pngBuffers,   \* createIco argument: sequence of PNG buffers
    sizes,        \* createIco argument: sequence of pixel sizes
    icoPc,        \* "ready" | "returned" | "threw"
    icoBuffer,    \* the buffer createIco returned (<<>> before / on throw)
    pngsBySize,   \* createIcns argument: object size -> PNG buffer
    icnsPc,       \* "ready" | "returned" | "threw"
    icnsBuffer,   \* the buffer createIcns returned
    genPc,        \* generateIcons: the stage the run is in ("idle" when not run)
    genIdx,       \* generateIcons: completed iterations of the current loop
    icoPngs,      \* generateIcons: the array icoPngs
    icnsPngs,     \* generateIcons: the object icnsPngs (size -> buffer)
    inFlight,     \* sharp operations issued and not yet settled
    requests,     \* every toBuffer() request issued so far, in order
    files,        \* path -> content of every file written in this run
    genError,     \* "none", or what made generateIcons reject
    scriptPc,       \* generate-icons.js: the stage its generateIcons is in
    scriptIdx,      \* generate-icons.js: completed iterations of the ICON_SIZES loop
    scriptPending,  \* generate-icons.js: a toFile() is issued and not settled
    disk,           \* generate-icons.js: path -> content of the files on disk
    scriptWritten,  \* generate-icons.js: the paths this run has written
    consoleLog,     \* generate-icons.js: the lines passed to console.log
    settings,         \* LLMGatewaySettings: state `settings` (Null before load)
    status,           \* LLMGatewaySettings: state `status`
    loading,          \* LLMGatewaySettings: state `loading`
    saving,           \* LLMGatewaySettings: state `saving`
    testingProvider,  \* LLMGatewaySettings: state `testingProvider`
    error,            \* LLMGatewaySettings: state `error`
    addOps,           \* pending handleAddProvider calls: the settings each captured
    testOps,          \* pending handleTestProvider calls: the provider each captured
    toggleOps,        \* pending handleToggleGateway calls: [call, phase]
    refreshOps        \* pending getGatewayStatus calls of the refresh interval

encVars == <<pngBuffers, sizes, icoPc, icoBuffer, pngsBySize, icnsPc, icnsBuffer>>
genVars == <<genPc, genIdx, icoPngs, icnsPngs, inFlight, requests, files, genError>>
scriptVars == <<scriptPc, scriptIdx, scriptPending, disk, scriptWritten, consoleLog>>
uiVars == <<settings, status, loading, saving, testingProvider, error,
            addOps, testOps, toggleOps, refreshOps>>
vars == <<pngBuffers, sizes, icoPc, icoBuffer, pngsBySize, icnsPc, icnsBuffer,
          genPc, genIdx, icoPngs, icnsPngs, inFlight, requests, files, genError,
          scriptPc, scriptIdx, scriptPending, disk, scriptWritten, consoleLog,
          settings, status, loading, saving, testingProvider, error,
          addOps, testOps, toggleOps, refreshOps>>

---------------------------------------------------------------------------
(* Bounds and input samples *)

MaxImages == 3

\* Opaque encoded raster buffers of length 0, 1 and 2.
PngSamples == { <<>>, <<170>>, <<187, 204>> }

\* Pixel sizes handed to createIco: below, inside and above the byte range.
IcoSizeSamples == { -1, 0, 16, 255, 256, 257, 65536 }

RECURSIVE SeqsUpTo(_, _)
SeqsUpTo(S, n) ==
    IF n = 0 THEN { <<>> }
    ELSE LET shorter == SeqsUpTo(S, n - 1)
         IN  shorter \cup { Append(s, x) : s \in { t \in shorter : Len(t) = n - 1 }, x \in S }

---------------------------------------------------------------------------
(* Node Buffer primitives used by the encoders *)

\* Buffer.alloc(n): n zero bytes.
BufferAlloc(n) == [ok |-> TRUE, b |-> [k \in 1..n |-> 0]]

Thrown(buf) == [ok |-> FALSE, b |-> buf.b]

\* Store the bytes bs at byte offset `offset`; the caller has checked the range.
PutBytes(buf, bs, offset) ==
    [ok |-> TRUE,
     b  |-> SubSeq(buf.b, 1, offset) \o bs \o SubSeq(buf.b, offset + Len(bs) + 1, Len(buf.b))]

\* buf.writeUInt8(value, offset): throws unless 0 <= value <= 255 and the byte fits.
writeUInt8(buf, value, offset) ==
    IF ~buf.ok THEN buf
    ELSE IF value < 0 \/ value > 255 \/ offset < 0 \/ offset + 1 > Len(buf.b) THEN Thrown(buf)
    ELSE PutBytes(buf, <<value>>, offset)

\* The two bytes of a 16-bit value, least significant first.
BytesLE16(value) == << value % 256, value \div 256 >>

\* buf.writeUInt16LE(value, offset)
writeUInt16LE(buf, value, offset) ==
    IF ~buf.ok THEN buf
    ELSE IF value < 0 \/ value > 65535 \/ offset < 0 \/ offset + 2 > Len(buf.b) THEN Thrown(buf)
    ELSE PutBytes(buf, BytesLE16(value), offset)

\* The four bytes of a 32-bit value, least significant first.
BytesLE32(value) ==
    << value % 256, (value \div 256) % 256,
       (value \div 65536) % 256, (value \div 16777216) % 256 >>

\* buf.writeUInt32LE(value, offset): throws unless 0 <= value <= 2^32 - 1
\* (written value \div 2^16 > 2^16 - 1, which stays inside TLC's integers).
writeUInt32LE(buf, value, offset) ==
    IF ~buf.ok THEN buf
    ELSE IF value < 0 \/ value \div 65536 > 65535 \/ offset < 0 \/ offset + 4 > Len(buf.b)
         THEN Thrown(buf)
    ELSE PutBytes(buf, BytesLE32(value), offset)

\* src.copy(target, targetStart): copies as many bytes of src as fit behind
\* targetStart (none when targetStart is at or past the end); throws only for a
\* negative targetStart.
BufferCopy(src, buf, targetStart) ==
    IF ~buf.ok THEN buf
    ELSE IF targetStart < 0 THEN Thrown(buf)
    ELSE IF targetStart >= Len(buf.b) THEN buf
    ELSE LET room == Len(buf.b) - targetStart
             n    == IF Len(src) < room THEN Len(src) ELSE room
         IN  PutBytes(buf, SubSeq(src, 1, n), targetStart)

---------------------------------------------------------------------------
(* createIco *)

headerSize == 6
dirEntrySize == 16

\* images.push({ width: size, height: size, data: png }) for every png buffer
IcoImages(bufs, szs) ==
    [i \in 1..Len(bufs) |-> [width |-> szs[i], height |-> szs[i], data |-> bufs[i]]]

\* A faulty variant of the next definition: the offset is recorded after the image's length was added.
RECURSIVE IcoOffsetsLoopAfter(_, _, _, _)
IcoOffsetsLoopAfter(images, i, dataOffset, imageOffsets) ==
    IF i > Len(images) THEN [imageOffsets |-> imageOffsets, dataOffset |-> dataOffset]
    ELSE IcoOffsetsLoopAfter(images, i + 1, dataOffset + Len(images[i].data),
                             Append(imageOffsets, dataOffset + Len(images[i].data)))
\* The loop computing imageOffsets and the total size: a single left-to-right
\* pass carrying the running dataOffset.
RECURSIVE IcoOffsetsLoop(_, _, _, _)
IcoOffsetsLoop(images, i, dataOffset, imageOffsets) ==
    IF i > Len(images) THEN [imageOffsets |-> imageOffsets, dataOffset |-> dataOffset]
    ELSE IcoOffsetsLoop(images, i + 1, dataOffset + Len(images[i].data),
                        Append(imageOffsets, dataOffset))

\* Faulty variants of the next definition: the low byte of the size; a size >= 256 clamped to 255.
IcoDimByteTruncated(dim) == dim % 256
IcoDimByteClamped(dim) == IF dim >= 256 THEN 255 ELSE dim
\* const width = img.width >= 256 ? 0 : img.width  (same expression for height)
IcoDimByte(dim) == IF dim >= 256 THEN 0 ELSE dim

\* A faulty variant of the next definition: the count field is left unwritten.
IcoWriteHeaderNoCount(buffer, numImages) ==
    writeUInt16LE(writeUInt16LE(buffer, 0, 0), 1, 2)
\* Header: reserved, type, count.
IcoWriteHeader(buffer, numImages) ==
    writeUInt16LE(writeUInt16LE(writeUInt16LE(buffer, 0, 0), 1, 2), numImages, 4)

\* A faulty variant of the next definition: bitsPerPixel 24.
IcoWriteDirEntry24Bit(buffer, img, imageOffset, offset) ==
    LET b1 == writeUInt8(buffer, IF img.width >= 256 THEN 0 ELSE img.width, offset)
        b2 == writeUInt8(b1, IF img.height >= 256 THEN 0 ELSE img.height, offset + 1)
        b3 == writeUInt8(b2, 0, offset + 2)
        b4 == writeUInt8(b3, 0, offset + 3)
        b5 == writeUInt16LE(b4, 1, offset + 4)
        b6 == writeUInt16LE(b5, 24, offset + 6)
        b7 == writeUInt32LE(b6, Len(img.data), offset + 8)
    IN  writeUInt32LE(b7, imageOffset, offset + 12)
\* One directory entry at byte offset `offset`.
IcoWriteDirEntry(buffer, img, imageOffset, offset) ==
    LET width  == IcoDimByte(img.width)
        height == IcoDimByte(img.height)
        b1 == writeUInt8(buffer, width, offset)
        b2 == writeUInt8(b1, height, offset + 1)
        b3 == writeUInt8(b2, 0, offset + 2)
        b4 == writeUInt8(b3, 0, offset + 3)
        b5 == writeUInt16LE(b4, 1, offset + 4)
        b6 == writeUInt16LE(b5, 32, offset + 6)
        b7 == writeUInt32LE(b6, Len(img.data), offset + 8)
    IN  writeUInt32LE(b7, imageOffset, offset + 12)

\* The directory loop: offset starts at headerSize and advances by dirEntrySize;
\* a write that throws leaves the loop.
RECURSIVE IcoWriteDirectory(_, _, _, _, _)
IcoWriteDirectory(buffer, images, imageOffsets, i, offset) ==
    IF i > Len(images) THEN buffer
    ELSE LET written == IcoWriteDirEntry(buffer, images[i], imageOffsets[i], offset)
         IN  IF ~written.ok THEN written
             ELSE IcoWriteDirectory(written, images, imageOffsets, i + 1,
                                    offset + dirEntrySize)

\* A faulty variant of the next definition: every image is copied to the start of the data block.
RECURSIVE IcoWriteDataAtBlockStart(_, _, _, _)
IcoWriteDataAtBlockStart(buffer, images, imageOffsets, i) ==
    IF i > Len(images) THEN buffer
    ELSE LET copied == BufferCopy(images[i].data, buffer, imageOffsets[1])
         IN  IF ~copied.ok THEN copied
             ELSE IcoWriteDataAtBlockStart(copied, images, imageOffsets, i + 1)
\* The image data loop: images[i].data.copy(buffer, imageOffsets[i]).
RECURSIVE IcoWriteData(_, _, _, _)
IcoWriteData(buffer, images, imageOffsets, i) ==
    IF i > Len(images) THEN buffer
    ELSE LET copied == BufferCopy(images[i].data, buffer, imageOffsets[i])
         IN  IF ~copied.ok THEN copied
             ELSE IcoWriteData(copied, images, imageOffsets, i + 1)

\* createIco(pngBuffers, sizes): the writer after the last statement; .ok is
\* FALSE when a write threw, otherwise .b is the returned buffer.
createIco(bufs, szs) ==
    LET images    == IcoImages(bufs, szs)
        numImages == Len(images)
        layout    == IcoOffsetsLoop(images, 1, headerSize + (dirEntrySize * numImages), <<>>)
        buffer    == BufferAlloc(layout.dataOffset)
        withHead  == IcoWriteHeader(buffer, numImages)
        withDir   == IcoWriteDirectory(withHead, images, layout.imageOffsets, 1, headerSize)
    IN  IcoWriteData(withDir, images, layout.imageOffsets, 1)

---------------------------------------------------------------------------
(* createIcns *)

\* A faulty variant of the next definition: least significant byte first.
BytesBE32LittleEndian(value) ==
    << value % 256, (value \div 256) % 256,
       (value \div 65536) % 256, (value \div 16777216) % 256 >>
\* The four bytes of a 32-bit value, most significant first.
BytesBE32(value) ==
    << (value \div 16777216) % 256, (value \div 65536) % 256,
       (value \div 256) % 256, value % 256 >>

\* buf.writeUInt32BE(value, offset)
writeUInt32BE(buf, value, offset) ==
    IF ~buf.ok THEN buf
    ELSE IF value < 0 \/ value \div 65536 > 65535 \/ offset < 0 \/ offset + 4 > Len(buf.b)
         THEN Thrown(buf)
    ELSE PutBytes(buf, BytesBE32(value), offset)

\* The ASCII code of each character the encoder writes.
AsciiCode(ch) ==
    CASE ch = "0" -> 48 [] ch = "1" -> 49 [] ch = "4" -> 52 [] ch = "5" -> 53
      [] ch = "6" -> 54 [] ch = "7" -> 55 [] ch = "8" -> 56 [] ch = "9" -> 57
      [] ch = "c" -> 99 [] ch = "i" -> 105 [] ch = "n" -> 110 [] ch = "p" -> 112
      [] ch = "s" -> 115

\* buf.write(string, offset, length, 'ascii'): the first `length` characters of
\* the string as ASCII bytes, as many as fit.  A string is a sequence of characters.
BufferWriteAscii(buf, string, offset, length) ==
    IF ~buf.ok THEN buf
    ELSE IF offset < 0 \/ offset > Len(buf.b) THEN Thrown(buf)
    ELSE LET room == Len(buf.b) - offset
             want == IF Len(string) < length THEN Len(string) ELSE length
             n    == IF want < room THEN want ELSE room
         IN  PutBytes(buf, [k \in 1..n |-> AsciiCode(string[k])], offset)

\* A faulty variant of the definition after the next: the entry for 1024
\* ('ic10') is missing.
icnsTypesWithoutIc10 ==
    << [size |-> <<1, 6>>,       typeCode |-> <<"i", "c", "p", "4">>],
       [size |-> <<3, 2>>,       typeCode |-> <<"i", "c", "p", "5">>],
       [size |-> <<6, 4>>,       typeCode |-> <<"i", "c", "p", "6">>],
       [size |-> <<1, 2, 8>>,    typeCode |-> <<"i", "c", "0", "7">>],
       [size |-> <<2, 5, 6>>,    typeCode |-> <<"i", "c", "0", "8">>],
       [size |-> <<5, 1, 2>>,    typeCode |-> <<"i", "c", "0", "9">>] >>
\* A faulty variant of the next definition: the key of 'icp5' is mistyped as 33.
icnsTypesMistyped ==
    << [size |-> <<1, 6>>,       typeCode |-> <<"i", "c", "p", "4">>],
       [size |-> <<3, 3>>,       typeCode |-> <<"i", "c", "p", "5">>],
       [size |-> <<6, 4>>,       typeCode |-> <<"i", "c", "p", "6">>],
       [size |-> <<1, 2, 8>>,    typeCode |-> <<"i", "c", "0", "7">>],
       [size |-> <<2, 5, 6>>,    typeCode |-> <<"i", "c", "0", "8">>],
       [size |-> <<5, 1, 2>>,    typeCode |-> <<"i", "c", "0", "9">>],
       [size |-> <<1, 0, 2, 4>>, typeCode |-> <<"i", "c", "1", "0">>] >>
\* Object.entries(icnsTypes): the object literal's integer-like keys come out as
\* decimal strings in ascending numeric order (here also the literal's order).
\* A key is its sequence of decimal digits.
icnsTypes ==
    << [size |-> <<1, 6>>,       typeCode |-> <<"i", "c", "p", "4">>],
       [size |-> <<3, 2>>,       typeCode |-> <<"i", "c", "p", "5">>],
       [size |-> <<6, 4>>,       typeCode |-> <<"i", "c", "p", "6">>],
       [size |-> <<1, 2, 8>>,    typeCode |-> <<"i", "c", "0", "7">>],
       [size |-> <<2, 5, 6>>,    typeCode |-> <<"i", "c", "0", "8">>],
       [size |-> <<5, 1, 2>>,    typeCode |-> <<"i", "c", "0", "9">>],
       [size |-> <<1, 0, 2, 4>>, typeCode |-> <<"i", "c", "1", "0">>] >>

\* parseInt(size) of a decimal digit string.
RECURSIVE parseInt(_)
parseInt(digits) ==
    IF digits = << >> THEN 0
    ELSE 10 * parseInt(SubSeq(digits, 1, Len(digits) - 1)) + digits[Len(digits)]

\* A faulty variant of the next definition: chunkLength counts the data only.
IcnsChunkLengthWithoutHeader(typeCode, png) ==
    LET chunkSize == 8 + Len(png)
        chunk     == BufferAlloc(chunkSize)
        c1 == BufferWriteAscii(chunk, typeCode, 0, 4)
        c2 == writeUInt32BE(c1, Len(png), 4)
    IN  BufferCopy(png, c2, 8)
\* One chunk: 4 byte type + 4 byte length + data.
IcnsChunk(typeCode, png) ==
    LET chunkSize == 8 + Len(png)
        chunk     == BufferAlloc(chunkSize)
        c1 == BufferWriteAscii(chunk, typeCode, 0, 4)
        c2 == writeUInt32BE(c1, chunkSize, 4)
    IN  BufferCopy(png, c2, 8)

\* A faulty variant of the next definition: chunks.unshift(chunk) instead of push.
RECURSIVE IcnsChunksLoopUnshift(_, _, _)
IcnsChunksLoopUnshift(bySize, i, chunks) ==
    IF i > Len(icnsTypes) THEN [ok |-> TRUE, chunks |-> chunks]
    ELSE LET size == parseInt(icnsTypes[i].size)
         IN  IF size \in DOMAIN bySize
             THEN LET chunk == IcnsChunk(icnsTypes[i].typeCode, bySize[size])
                  IN  IF chunk.ok
                      THEN IcnsChunksLoopUnshift(bySize, i + 1, <<chunk.b>> \o chunks)
                      ELSE [ok |-> FALSE, chunks |-> chunks]
             ELSE IcnsChunksLoopUnshift(bySize, i + 1, chunks)
\* A faulty variant of the next definition: if (png && png.length), so that an
\* empty buffer is skipped.
RECURSIVE IcnsChunksLoopSkipEmpty(_, _, _)
IcnsChunksLoopSkipEmpty(bySize, i, chunks) ==
    IF i > Len(icnsTypes) THEN [ok |-> TRUE, chunks |-> chunks]
    ELSE LET size == parseInt(icnsTypes[i].size)
         IN  IF size \in DOMAIN bySize /\ Len(bySize[size]) > 0
             THEN LET chunk == IcnsChunk(icnsTypes[i].typeCode, bySize[size])
                  IN  IF chunk.ok
                      THEN IcnsChunksLoopSkipEmpty(bySize, i + 1, Append(chunks, chunk.b))
                      ELSE [ok |-> FALSE, chunks |-> chunks]
             ELSE IcnsChunksLoopSkipEmpty(bySize, i + 1, chunks)
\* The loop over Object.entries(icnsTypes): a chunk is pushed for every entry
\* whose size has a (truthy) buffer in pngsBySize; a Buffer object is truthy
\* whatever its length, a missing property is undefined.  `failed` records a
\* throw inside the loop body.
RECURSIVE IcnsChunksLoop(_, _, _)
IcnsChunksLoop(bySize, i, chunks) ==
    IF i > Len(icnsTypes) THEN [ok |-> TRUE, chunks |-> chunks]
    ELSE LET size == parseInt(icnsTypes[i].size)
         IN  IF size \in DOMAIN bySize
             THEN LET chunk == IcnsChunk(icnsTypes[i].typeCode, bySize[size])
                  IN  IF chunk.ok
                      THEN IcnsChunksLoop(bySize, i + 1, Append(chunks, chunk.b))
                      ELSE [ok |-> FALSE, chunks |-> chunks]
             ELSE IcnsChunksLoop(bySize, i + 1, chunks)

\* chunks.reduce((sum, chunk) => sum + chunk.length, 0)
RECURSIVE IcnsSumLengths(_, _, _)
IcnsSumLengths(chunks, i, sum) ==
    IF i > Len(chunks) THEN sum
    ELSE IcnsSumLengths(chunks, i + 1, sum + Len(chunks[i]))

\* A faulty variant of the next definition: the 8 header bytes are not counted.
IcnsTotalSizeWithoutHeader(chunks) == IcnsSumLengths(chunks, 1, 0)
\* const totalSize = 8 + chunks.reduce(...)
IcnsTotalSize(chunks) == 8 + IcnsSumLengths(chunks, 1, 0)

\* The final loop: chunk.copy(icns, offset); offset += chunk.length.
RECURSIVE IcnsCopyChunks(_, _, _, _)
IcnsCopyChunks(icns, chunks, i, offset) ==
    IF i > Len(chunks) THEN icns
    ELSE LET copied == BufferCopy(chunks[i], icns, offset)
         IN  IF ~copied.ok THEN copied
             ELSE IcnsCopyChunks(copied, chunks, i + 1, offset + Len(chunks[i]))

\* The characters of the magic literal 'icns'.
IcnsMagic == <<"i", "c", "n", "s">>

\* createIcns(pngsBySize): the writer after the last statement.
createIcns(bySize) ==
    LET built == IcnsChunksLoop(bySize, 1, << >>)
    IN  IF ~built.ok THEN [ok |-> FALSE, b |-> << >>]
        ELSE LET chunks    == built.chunks
                 totalSize == IcnsTotalSize(chunks)
                 icns      == BufferAlloc(totalSize)
                 i1 == BufferWriteAscii(icns, IcnsMagic, 0, 4)
                 i2 == writeUInt32BE(i1, totalSize, 4)
             IN  IcnsCopyChunks(i2, chunks, 1, 8)

---------------------------------------------------------------------------
(* Specification of the ICO encoder: Init draws the arguments, the single  *)
(* action is one whole call of createIco.                                  *)

IcnsIdle ==
    /\ pngsBySize = << >>
    /\ icnsPc = "idle"
    /\ icnsBuffer = << >>

\* generateIcons is not run.
GenIdle ==
    /\ genPc = "idle"
    /\ genIdx = 0
    /\ icoPngs = << >>
    /\ icnsPngs = << >>
    /\ inFlight = << >>
    /\ requests = << >>
    /\ files = << >>
    /\ genError = "none"

\* generate-icons.js is not run.
ScriptIdle ==
    /\ scriptPc = "idle"
    /\ scriptIdx = 0
    /\ scriptPending = FALSE
    /\ disk = << >>
    /\ scriptWritten = {}
    /\ consoleLog = << >>

\* null in a state that otherwise holds a string (testingProvider, error) and
\* in one that otherwise holds an object (settings, status).
Null == "null"
NullObject == [null |-> TRUE]

\* The LLMGatewaySettings component is not mounted.
UiIdle ==
    /\ settings = NullObject
    /\ status = NullObject
    /\ loading = FALSE
    /\ saving = FALSE
    /\ testingProvider = Null
    /\ error = Null
    /\ addOps = << >>
    /\ testOps = << >>
    /\ toggleOps = << >>
    /\ refreshOps = 0

InitIco ==
    /\ pngBuffers \in SeqsUpTo(PngSamples, MaxImages)
    /\ sizes \in SeqsUpTo(IcoSizeSamples, MaxImages)
    /\ Len(sizes) = Len(pngBuffers)
    /\ icoPc = "ready"
    /\ icoBuffer = << >>
    /\ IcnsIdle
    /\ GenIdle
    /\ ScriptIdle
    /\ UiIdle

\* A faulty variant of the next definition: the data loop copies the other way,
\* buffer.copy(images[i].data, 0, imageOffsets[i]), overwriting each input
\* buffer with the still-empty bytes of the data block.
CallCreateIcoReversedCopy ==
    /\ icoPc = "ready"
    /\ LET r == createIco([i \in 1..Len(pngBuffers) |-> << >>], sizes)
       IN  /\ icoPc' = IF r.ok THEN "returned" ELSE "threw"
           /\ icoBuffer' = IF r.ok THEN r.b ELSE << >>
           /\ pngBuffers' = [i \in 1..Len(pngBuffers) |->
                                [k \in 1..Len(pngBuffers[i]) |-> 0]]
    /\ UNCHANGED <<sizes, pngsBySize, icnsPc, icnsBuffer, genVars, scriptVars, uiVars>>

\* One whole call createIco(pngBuffers, sizes).  The function reads the
\* argument arrays and buffers (length, copy source) and writes only to the
\* buffer it allocates.
CallCreateIco ==
    /\ icoPc = "ready"
    /\ LET r == createIco(pngBuffers, sizes)
       IN  /\ icoPc' = IF r.ok THEN "returned" ELSE "threw"
           /\ icoBuffer' = IF r.ok THEN r.b ELSE << >>
    /\ UNCHANGED <<pngBuffers, sizes, pngsBySize, icnsPc, icnsBuffer, genVars, scriptVars, uiVars>>

NextIco == CallCreateIco

SpecIco == InitIco /\ [][NextIco]_vars

---------------------------------------------------------------------------
(* Specification of the ICNS encoder: Init draws the size -> buffer object, *)
(* the single action is one whole call of createIcns.                       *)

\* Sizes that may be keys of pngsBySize: the seven registered ones and 33.
IcnsSizeSamples == { 16, 32, 33, 64, 128, 256, 512, 1024 }

IcoIdle ==
    /\ pngBuffers = << >>
    /\ sizes = << >>
    /\ icoPc = "idle"
    /\ icoBuffer = << >>

InitIcns ==
    /\ \E keys \in SUBSET IcnsSizeSamples : pngsBySize \in [keys -> PngSamples]
    /\ icnsPc = "ready"
    /\ icnsBuffer = << >>
    /\ IcoIdle
    /\ GenIdle
    /\ ScriptIdle
    /\ UiIdle

CallCreateIcns ==
    /\ icnsPc = "ready"
    /\ LET r == createIcns(pngsBySize)
       IN  /\ icnsPc' = IF r.ok THEN "returned" ELSE "threw"
           /\ icnsBuffer' = IF r.ok THEN r.b ELSE << >>
    /\ UNCHANGED <<pngBuffers, sizes, icoPc, icoBuffer, pngsBySize, genVars, scriptVars, uiVars>>

NextIcns == CallCreateIcns

SpecIcns == InitIcns /\ [][NextIcns]_vars

---------------------------------------------------------------------------
(* Both encoders: either one is called on arguments drawn as above. *)

InitEncoders == InitIco \/ InitIcns

NextEncoders == CallCreateIco \/ CallCreateIcns

SpecEncoders == InitEncoders /\ [][NextEncoders]_vars

---------------------------------------------------------------------------
(* generateIcons: the orchestrator.  Every `await sharp(...)` is an issue    *)
(* step followed by a settle step (fulfilled or rejected); generateIcons has *)
(* no try/catch, so any throw or rejection rejects the run, which the caller *)
(* answers with .catch(console.error).  A path join(a, b, ...) is the tuple  *)
(* of its parts below ICONS_DIR.                                             *)

STANDARD_ICONS ==
    << [size |-> 32,  name |-> "32x32.png"],
       [size |-> 64,  name |-> "64x64.png"],
       [size |-> 128, name |-> "128x128.png"],
       [size |-> 256, name |-> "128x128@2x.png"],
       [size |-> 512, name |-> "icon.png"] >>

WINDOWS_ICONS ==
    << [size |-> 30,  name |-> "Square30x30Logo.png"],
       [size |-> 44,  name |-> "Square44x44Logo.png"],
       [size |-> 71,  name |-> "Square71x71Logo.png"],
       [size |-> 89,  name |-> "Square89x89Logo.png"],
       [size |-> 107, name |-> "Square107x107Logo.png"],
       [size |-> 142, name |-> "Square142x142Logo.png"],
       [size |-> 150, name |-> "Square150x150Logo.png"],
       [size |-> 284, name |-> "Square284x284Logo.png"],
       [size |-> 310, name |-> "Square310x310Logo.png"],
       [size |-> 50,  name |-> "StoreLogo.png"] >>

IOS_ICONS ==
    << [size |-> 20,   name |-> "AppIcon-20x20@1x.png"],
       [size |-> 40,   name |-> "AppIcon-20x20@2x.png"],
       [size |-> 40,   name |-> "AppIcon-20x20@2x-1.png"],
       [size |-> 60,   name |-> "AppIcon-20x20@3x.png"],
       [size |-> 29,   name |-> "AppIcon-29x29@1x.png"],
       [size |-> 58,   name |-> "AppIcon-29x29@2x.png"],
       [size |-> 58,   name |-> "AppIcon-29x29@2x-1.png"],
       [size |-> 87,   name |-> "AppIcon-29x29@3x.png"],
       [size |-> 40,   name |-> "AppIcon-40x40@1x.png"],
       [size |-> 80,   name |-> "AppIcon-40x40@2x.png"],
       [size |-> 80,   name |-> "AppIcon-40x40@2x-1.png"],
       [size |-> 120,  name |-> "AppIcon-40x40@3x.png"],
       [size |-> 120,  name |-> "AppIcon-60x60@2x.png"],
       [size |-> 180,  name |-> "AppIcon-60x60@3x.png"],
       [size |-> 76,   name |-> "AppIcon-76x76@1x.png"],
       [size |-> 152,  name |-> "AppIcon-76x76@2x.png"],
       [size |-> 167,  name |-> "AppIcon-83.5x83.5@2x.png"],
       [size |-> 1024, name |-> "AppIcon-512@2x.png"] >>

ANDROID_ICONS ==
    << [size |-> 48,  dir |-> "mipmap-mdpi"],
       [size |-> 72,  dir |-> "mipmap-hdpi"],
       [size |-> 96,  dir |-> "mipmap-xhdpi"],
       [size |-> 144, dir |-> "mipmap-xxhdpi"],
       [size |-> 192, dir |-> "mipmap-xxxhdpi"] >>

\* The three files written per Android density, in the order of the loop body.
AndroidFiles == << "ic_launcher.png", "ic_launcher_round.png", "ic_launcher_foreground.png" >>

\* The toFile() calls of the four PNG stages in program order.  mkdir marks the
\* call that follows an `if (!existsSync(dir)) mkdirSync(dir)`.
PngTasks ==
    [i \in 1..Len(STANDARD_ICONS) |->
        [path |-> << STANDARD_ICONS[i].name >>, size |-> STANDARD_ICONS[i].size,
         mkdir |-> FALSE]]
    \o [i \in 1..Len(WINDOWS_ICONS) |->
        [path |-> << WINDOWS_ICONS[i].name >>, size |-> WINDOWS_ICONS[i].size,
         mkdir |-> FALSE]]
    \o [i \in 1..Len(IOS_ICONS) |->
        [path |-> << "ios", IOS_ICONS[i].name >>, size |-> IOS_ICONS[i].size,
         mkdir |-> (i = 1)]]
    \o [i \in 1..(Len(ANDROID_ICONS) * Len(AndroidFiles)) |->
        LET icon == ANDROID_ICONS[((i - 1) \div Len(AndroidFiles)) + 1]
            file == ((i - 1) % Len(AndroidFiles)) + 1
        IN  [path |-> << "android", icon.dir, AndroidFiles[file] >>, size |-> icon.size,
             mkdir |-> (file = 1)]]

icoSizes == << 16, 24, 32, 48, 64, 128, 256 >>
icnsSizes == << 16, 32, 64, 128, 256, 512, 1024 >>

IcoPath == << "icon.ico" >>
IcnsPath == << "icon.icns" >>

\* The rasterizer (sharp(svg).resize(size, size).png()): an opaque encoded
\* buffer that depends on the size only; one byte below 256, two from there.
Render(size) == IF size < 256 THEN << size >> ELSE << size \div 256, size % 256 >>

\* The run rejects: nothing of generateIcons runs afterwards.
GenReject(why) ==
    /\ genPc' = "rejected"
    /\ genError' = why
    /\ inFlight' = << >>

InitGen ==
    /\ genPc = "start"
    /\ genIdx = 0
    /\ icoPngs = << >>
    /\ icnsPngs = << >>
    /\ inFlight = << >>
    /\ requests = << >>
    /\ files = << >>
    /\ genError = "none"
    /\ IcoIdle
    /\ IcnsIdle
    /\ ScriptIdle
    /\ UiIdle

\* const svgBuffer = readFileSync(SVG_PATH)
GenReadSvg ==
    /\ genPc = "start"
    /\ genPc' = "pngs"
    /\ UNCHANGED <<scriptVars, uiVars>>
    /\ UNCHANGED <<genIdx, icoPngs, icnsPngs, inFlight, requests, files, genError, encVars>>

\* A faulty variant of the next definition: the read error is noted and the
\* run goes on to the PNG stages.
GenReadSvgFailsContinues ==
    /\ genPc = "start"
    /\ genPc' = "pngs"
    /\ genError' = "SourceUnavailable"
    /\ UNCHANGED <<scriptVars, uiVars>>
    /\ UNCHANGED <<genIdx, icoPngs, icnsPngs, inFlight, requests, files, encVars>>
\* ... throws
GenReadSvgFails ==
    /\ genPc = "start"
    /\ GenReject("SourceUnavailable")
    /\ UNCHANGED <<scriptVars, uiVars>>
    /\ UNCHANGED <<genIdx, icoPngs, icnsPngs, requests, files, encVars>>

\* mkdirSync(dir, { recursive: true }) throws.
GenMkdirFails ==
    /\ genPc = "pngs"
    /\ inFlight = << >>
    /\ PngTasks[genIdx + 1].mkdir
    /\ GenReject("mkdir")
    /\ UNCHANGED <<scriptVars, uiVars>>
    /\ UNCHANGED <<genIdx, icoPngs, icnsPngs, requests, files, encVars>>

\* await sharp(svgBuffer).resize(size, size).png().toFile(outputPath): issued
GenIssuePng ==
    /\ genPc = "pngs"
    /\ inFlight = << >>
    /\ inFlight' = << [kind |-> "png", size |-> PngTasks[genIdx + 1].size] >>
    /\ UNCHANGED <<scriptVars, uiVars>>
    /\ UNCHANGED <<genPc, genIdx, icoPngs, icnsPngs, requests, files, genError, encVars>>

\* ... fulfilled: the file is on disk; after the last one the ICO stage starts
GenPngDone ==
    /\ genPc = "pngs"
    /\ inFlight # << >>
    /\ files' = (PngTasks[genIdx + 1].path :> Render(PngTasks[genIdx + 1].size)) @@ files
    /\ inFlight' = << >>
    /\ IF genIdx + 1 = Len(PngTasks)
       THEN genPc' = "icoRaster" /\ genIdx' = 0
       ELSE genPc' = genPc /\ genIdx' = genIdx + 1
    /\ UNCHANGED <<scriptVars, uiVars>>
    /\ UNCHANGED <<icoPngs, icnsPngs, requests, genError, encVars>>

\* A faulty variant of the next definition: the rejection is caught and the
\* loop goes on with the next file.
GenPngFailsSwallowed ==
    /\ genPc = "pngs"
    /\ inFlight # << >>
    /\ genError' = "png"
    /\ inFlight' = << >>
    /\ IF genIdx + 1 = Len(PngTasks)
       THEN genPc' = "icoRaster" /\ genIdx' = 0
       ELSE genPc' = genPc /\ genIdx' = genIdx + 1
    /\ UNCHANGED <<scriptVars, uiVars>>
    /\ UNCHANGED <<icoPngs, icnsPngs, requests, files, encVars>>
\* ... rejected
GenPngFails ==
    /\ genPc = "pngs"
    /\ inFlight # << >>
    /\ GenReject("png")
    /\ UNCHANGED <<scriptVars, uiVars>>
    /\ UNCHANGED <<genIdx, icoPngs, icnsPngs, requests, files, encVars>>

\* for (const size of icoSizes): await sharp(...).toBuffer() issued
GenIssueIcoRaster ==
    /\ genPc = "icoRaster"
    /\ inFlight = << >>
    /\ inFlight' = << [kind |-> "ico", size |-> icoSizes[genIdx + 1]] >>
    /\ requests' = Append(requests, [format |-> "ico", size |-> icoSizes[genIdx + 1]])
    /\ UNCHANGED <<scriptVars, uiVars>>
    /\ UNCHANGED <<genPc, genIdx, icoPngs, icnsPngs, files, genError, encVars>>

\* A faulty variant of the next definition: the buffer is put at the front of
\* icoPngs (unshift) instead of the back.
GenIcoRasterDoneUnshift ==
    /\ genPc = "icoRaster"
    /\ inFlight # << >>
    /\ icoPngs' = << Render(inFlight[1].size) >> \o icoPngs
    /\ inFlight' = << >>
    /\ IF genIdx + 1 = Len(icoSizes)
       THEN genPc' = "icoEncode" /\ genIdx' = 0
       ELSE genPc' = genPc /\ genIdx' = genIdx + 1
    /\ UNCHANGED <<scriptVars, uiVars>>
    /\ UNCHANGED <<icnsPngs, requests, files, genError, encVars>>
\* ... fulfilled: icoPngs.push(buffer); the loop ends after the last size
GenIcoRasterDone ==
    /\ genPc = "icoRaster"
    /\ inFlight # << >>
    /\ icoPngs' = Append(icoPngs, Render(inFlight[1].size))
    /\ inFlight' = << >>
    /\ IF genIdx + 1 = Len(icoSizes)
       THEN genPc' = "icoEncode" /\ genIdx' = 0
       ELSE genPc' = genPc /\ genIdx' = genIdx + 1
    /\ UNCHANGED <<scriptVars, uiVars>>
    /\ UNCHANGED <<icnsPngs, requests, files, genError, encVars>>

\* A faulty variant of the next definition: the rejection is caught and the
\* loop goes on with the next size.
GenIcoRasterFailsSwallowed ==
    /\ genPc = "icoRaster"
    /\ inFlight # << >>
    /\ genError' = "icoRaster"
    /\ inFlight' = << >>
    /\ IF genIdx + 1 = Len(icoSizes)
       THEN genPc' = "icoEncode" /\ genIdx' = 0
       ELSE genPc' = genPc /\ genIdx' = genIdx + 1
    /\ UNCHANGED <<scriptVars, uiVars>>
    /\ UNCHANGED <<icoPngs, icnsPngs, requests, files, encVars>>
\* ... rejected: the rejection leaves the loop and generateIcons
GenIcoRasterFails ==
    /\ genPc = "icoRaster"
    /\ inFlight # << >>
    /\ GenReject("icoRaster")
    /\ UNCHANGED <<scriptVars, uiVars>>
    /\ UNCHANGED <<genIdx, icoPngs, icnsPngs, requests, files, encVars>>

\* A faulty variant of the next definition: the encoder is started as soon as
\* one buffer is there, while the loop is still running.
GenCreateIcoEarly ==
    /\ genPc = "icoRaster"
    /\ inFlight = << >>
    /\ icoPngs # << >>
    /\ LET r == createIco(icoPngs, icoSizes)
       IN  /\ pngBuffers' = icoPngs
           /\ sizes' = icoSizes
           /\ icoPc' = IF r.ok THEN "returned" ELSE "threw"
           /\ icoBuffer' = IF r.ok THEN r.b ELSE << >>
           /\ IF r.ok
              THEN genPc' = "icoWrite" /\ genError' = genError
              ELSE genPc' = "rejected" /\ genError' = "icoEncode"
    /\ UNCHANGED <<scriptVars, uiVars>>
    /\ UNCHANGED <<genIdx, icoPngs, icnsPngs, inFlight, requests, files,
                   pngsBySize, icnsPc, icnsBuffer>>
\* const icoBuffer = await createIco(icoPngs, icoSizes), reached when the loop
\* over icoSizes has ended
GenCreateIco ==
    /\ genPc = "icoEncode"
    /\ LET r == createIco(icoPngs, icoSizes)
       IN  /\ pngBuffers' = icoPngs
           /\ sizes' = icoSizes
           /\ icoPc' = IF r.ok THEN "returned" ELSE "threw"
           /\ icoBuffer' = IF r.ok THEN r.b ELSE << >>
           /\ IF r.ok
              THEN genPc' = "icoWrite" /\ genError' = genError
              ELSE genPc' = "rejected" /\ genError' = "icoEncode"
    /\ UNCHANGED <<scriptVars, uiVars>>
    /\ UNCHANGED <<genIdx, icoPngs, icnsPngs, inFlight, requests, files,
                   pngsBySize, icnsPc, icnsBuffer>>

\* writeFileSync(join(ICONS_DIR, 'icon.ico'), icoBuffer)
GenWriteIco ==
    /\ genPc = "icoWrite"
    /\ files' = (IcoPath :> icoBuffer) @@ files
    /\ genPc' = "icnsRaster"
    /\ UNCHANGED <<scriptVars, uiVars>>
    /\ UNCHANGED <<genIdx, icoPngs, icnsPngs, inFlight, requests, genError, encVars>>

\* ... throws
GenWriteIcoFails ==
    /\ genPc = "icoWrite"
    /\ GenReject("icoWrite")
    /\ UNCHANGED <<scriptVars, uiVars>>
    /\ UNCHANGED <<genIdx, icoPngs, icnsPngs, requests, files, encVars>>

\* A faulty variant of the next definition: the next size is requested
\* without waiting for the pending one (the await is missing).
GenIssueIcnsRasterFanOut ==
    /\ genPc = "icnsRaster"
    /\ genIdx + 1 + Len(inFlight) <= Len(icnsSizes)
    /\ inFlight' = Append(inFlight, [kind |-> "icns", size |-> icnsSizes[genIdx + 1 + Len(inFlight)]])
    /\ requests' = Append(requests, [format |-> "icns", size |-> icnsSizes[genIdx + 1 + Len(inFlight)]])
    /\ UNCHANGED <<scriptVars, uiVars>>
    /\ UNCHANGED <<genPc, genIdx, icoPngs, icnsPngs, files, genError, encVars>>
\* for (const size of icnsSizes): await sharp(...).toBuffer() issued
GenIssueIcnsRaster ==
    /\ genPc = "icnsRaster"
    /\ inFlight = << >>
    /\ inFlight' = << [kind |-> "icns", size |-> icnsSizes[genIdx + 1]] >>
    /\ requests' = Append(requests, [format |-> "icns", size |-> icnsSizes[genIdx + 1]])
    /\ UNCHANGED <<scriptVars, uiVars>>
    /\ UNCHANGED <<genPc, genIdx, icoPngs, icnsPngs, files, genError, encVars>>

\* ... fulfilled: icnsPngs[size] = buffer
GenIcnsRasterDone ==
    /\ genPc = "icnsRaster"
    /\ inFlight # << >>
    /\ icnsPngs' = (inFlight[1].size :> Render(inFlight[1].size)) @@ icnsPngs
    /\ inFlight' = << >>
    /\ IF genIdx + 1 = Len(icnsSizes)
       THEN genPc' = "icnsEncode" /\ genIdx' = 0
       ELSE genPc' = genPc /\ genIdx' = genIdx + 1
    /\ UNCHANGED <<scriptVars, uiVars>>
    /\ UNCHANGED <<icoPngs, requests, files, genError, encVars>>

\* ... rejected
GenIcnsRasterFails ==
    /\ genPc = "icnsRaster"
    /\ inFlight # << >>
    /\ GenReject("icnsRaster")
    /\ UNCHANGED <<scriptVars, uiVars>>
    /\ UNCHANGED <<genIdx, icoPngs, icnsPngs, requests, files, encVars>>

\* const icnsBuffer = createIcns(icnsPngs)
GenCreateIcns ==
    /\ genPc = "icnsEncode"
    /\ LET r == createIcns(icnsPngs)
       IN  /\ pngsBySize' = icnsPngs
           /\ icnsPc' = IF r.ok THEN "returned" ELSE "threw"
           /\ icnsBuffer' = IF r.ok THEN r.b ELSE << >>
           /\ IF r.ok
              THEN genPc' = "icnsWrite" /\ genError' = genError
              ELSE genPc' = "rejected" /\ genError' = "icnsEncode"
    /\ UNCHANGED <<scriptVars, uiVars>>
    /\ UNCHANGED <<genIdx, icoPngs, icnsPngs, inFlight, requests, files,
                   pngBuffers, sizes, icoPc, icoBuffer>>

\* writeFileSync(join(ICONS_DIR, 'icon.icns'), icnsBuffer); generateIcons returns
GenWriteIcns ==
    /\ genPc = "icnsWrite"
    /\ files' = (IcnsPath :> icnsBuffer) @@ files
    /\ genPc' = "done"
    /\ UNCHANGED <<scriptVars, uiVars>>
    /\ UNCHANGED <<genIdx, icoPngs, icnsPngs, inFlight, requests, genError, encVars>>

\* A faulty variant of the next definition: the failed run removes the
\* icon.ico it wrote before.
GenWriteIcnsFailsRollback ==
    /\ genPc = "icnsWrite"
    /\ GenReject("icnsWrite")
    /\ files' = [p \in DOMAIN files \ {IcoPath} |-> files[p]]
    /\ UNCHANGED <<scriptVars, uiVars>>
    /\ UNCHANGED <<genIdx, icoPngs, icnsPngs, requests, encVars>>
\* ... throws
GenWriteIcnsFails ==
    /\ genPc = "icnsWrite"
    /\ GenReject("icnsWrite")
    /\ UNCHANGED <<scriptVars, uiVars>>
    /\ UNCHANGED <<genIdx, icoPngs, icnsPngs, requests, files, encVars>>

NextGen ==
    \/ GenReadSvg \/ GenReadSvgFails
    \/ GenMkdirFails \/ GenIssuePng \/ GenPngDone \/ GenPngFails
    \/ GenIssueIcoRaster \/ GenIcoRasterDone \/ GenIcoRasterFails
    \/ GenCreateIco \/ GenWriteIco \/ GenWriteIcoFails
    \/ GenIssueIcnsRaster \/ GenIcnsRasterDone \/ GenIcnsRasterFails
    \/ GenCreateIcns \/ GenWriteIcns \/ GenWriteIcnsFails

SpecGen == InitGen /\ [][NextGen]_vars

---------------------------------------------------------------------------
(* Reading a produced buffer back: byte offset k is index k + 1. *)

ReadU8(b, off) == b[off + 1]
ReadU16LE(b, off) == b[off + 1] + 256 * b[off + 2]
ReadU32LE(b, off) ==
    b[off + 1] + 256 * b[off + 2] + 65536 * b[off + 3] + 16777216 * b[off + 4]
ReadU32BE(b, off) ==
    16777216 * b[off + 1] + 65536 * b[off + 2] + 256 * b[off + 3] + b[off + 4]
Slice(b, off, n) == SubSeq(b, off + 1, off + n)

RECURSIVE SumDataLengths(_, _)
SumDataLengths(bufs, n) ==
    IF n = 0 THEN 0 ELSE SumDataLengths(bufs, n - 1) + Len(bufs[n])

\* Byte offset of directory entry i (1-based) of an ICO buffer.
DirEntryAt(i) == 6 + 16 * (i - 1)

IcoN == Len(pngBuffers)
IcoDone == icoPc \in {"returned", "threw"}
IcoSizesDistinct == \A i, j \in 1..Len(sizes) : i # j => sizes[i] # sizes[j]
IcoSizesValid == \A i \in 1..Len(sizes) : sizes[i] >= 1 /\ sizes[i] <= 65535

---------------------------------------------------------------------------
(* Claims about createIco *)

\* C1: for every input list of N >= 1 images with distinct (valid) sizes and
\* arbitrary data lengths, createIco returns a buffer of length exactly
\* 6 + 16*N + (sum of all data lengths) whose little-endian 16-bit count
\* field at byte offset 4 equals N.
C1_LengthAndCount ==
    (IcoDone /\ IcoN >= 1 /\ IcoSizesDistinct /\ IcoSizesValid) =>
        /\ icoPc = "returned"
        /\ Len(icoBuffer) = 6 + 16 * IcoN + SumDataLengths(pngBuffers, IcoN)
        /\ ReadU16LE(icoBuffer, 4) = IcoN

C1_Witness ==
    /\ icoPc = "returned"
    /\ sizes = <<16, 256, 255>>
    /\ pngBuffers = << <<187, 204>>, <<>>, <<170>> >>
    /\ Len(icoBuffer) = 57
    /\ ReadU16LE(icoBuffer, 4) = 3

\* C2: in every directory entry i of the returned buffer, dataOffset equals
\* 6 + 16*N + (sum of the data lengths of the entries before i) and dataSize
\* equals the length of image i's data; no later entry enters the offset.
C2_DirOffsetsAndSizes ==
    icoPc = "returned" =>
        \A i \in 1..IcoN :
            /\ ReadU32LE(icoBuffer, DirEntryAt(i) + 12)
                 = 6 + 16 * IcoN + SumDataLengths(pngBuffers, i - 1)
            /\ ReadU32LE(icoBuffer, DirEntryAt(i) + 8) = Len(pngBuffers[i])

C2_Witness ==
    /\ icoPc = "returned"
    /\ IcoN = 3
    /\ Len(pngBuffers[1]) = 2 /\ Len(pngBuffers[2]) = 1 /\ Len(pngBuffers[3]) = 2
    /\ ReadU32LE(icoBuffer, DirEntryAt(1) + 12) = 54
    /\ ReadU32LE(icoBuffer, DirEntryAt(2) + 12) = 56
    /\ ReadU32LE(icoBuffer, DirEntryAt(3) + 12) = 57

\* C3: in the returned buffer an image of size 256 has width byte 0 and height
\* byte 0, and an image of a size in 1..255 has both bytes equal to that size.
C3_DimBytes ==
    icoPc = "returned" =>
        \A i \in 1..IcoN :
            /\ sizes[i] = 256 =>
                 /\ ReadU8(icoBuffer, DirEntryAt(i)) = 0
                 /\ ReadU8(icoBuffer, DirEntryAt(i) + 1) = 0
            /\ (sizes[i] >= 1 /\ sizes[i] <= 255) =>
                 /\ ReadU8(icoBuffer, DirEntryAt(i)) = sizes[i]
                 /\ ReadU8(icoBuffer, DirEntryAt(i) + 1) = sizes[i]

C3_Witness ==
    /\ icoPc = "returned"
    /\ sizes = <<255, 256, 16>>
    /\ ReadU8(icoBuffer, DirEntryAt(1)) = 255
    /\ ReadU8(icoBuffer, DirEntryAt(2)) = 0
    /\ ReadU8(icoBuffer, DirEntryAt(3) + 1) = 16

C5_EmptyListFails ==
    (IcoDone /\ IcoN = 0) => (icoPc = "threw" /\ icoBuffer = << >>)

\* C6 as stated: createIco given an image whose size lies outside 1..65535
\* fails and returns no buffer.
C6_OutOfRangeSizeFails ==
    (IcoDone /\ \E i \in 1..IcoN : sizes[i] < 1 \/ sizes[i] > 65535)
        => (icoPc = "threw" /\ icoBuffer = << >>)

\* C7: in the returned buffer the bytes [dataOffset[i], dataOffset[i] +
\* dataSize[i]) are exactly image i's data; the regions lie in input order
\* without overlap, gap or padding, the first starts at 6 + 16*N and the last
\* ends at the end of the buffer.
C7_DataRegions ==
    icoPc = "returned" =>
        LET off(i) == ReadU32LE(icoBuffer, DirEntryAt(i) + 12)
            sz(i)  == ReadU32LE(icoBuffer, DirEntryAt(i) + 8)
        IN  /\ \A i \in 1..IcoN :
                 /\ off(i) + sz(i) <= Len(icoBuffer)
                 /\ Slice(icoBuffer, off(i), sz(i)) = pngBuffers[i]
                 /\ off(i) = IF i = 1 THEN 6 + 16 * IcoN ELSE off(i - 1) + sz(i - 1)
            /\ Len(icoBuffer) = IF IcoN = 0 THEN 6 ELSE off(IcoN) + sz(IcoN)

C7_Witness ==
    /\ icoPc = "returned"
    /\ pngBuffers = << <<170>>, <<187, 204>>, <<170>> >>
    /\ Slice(icoBuffer, 54, 4) = <<170, 187, 204, 170>>
    /\ Len(icoBuffer) = 58

\* C8: the fixed fields do not depend on the input: header reserved = 0 and
\* type = 1, and in the directory entry at byte offset 6 + 16*i (i from 0)
\* colorPaletteCount = 0, reserved = 0, colorPlanes = 1, bitsPerPixel = 32.
C8_FixedFields ==
    icoPc = "returned" =>
        /\ ReadU16LE(icoBuffer, 0) = 0
        /\ ReadU16LE(icoBuffer, 2) = 1
        /\ \A i \in 1..IcoN :
             /\ ReadU8(icoBuffer, DirEntryAt(i) + 2) = 0
             /\ ReadU8(icoBuffer, DirEntryAt(i) + 3) = 0
             /\ ReadU16LE(icoBuffer, DirEntryAt(i) + 4) = 1
             /\ ReadU16LE(icoBuffer, DirEntryAt(i) + 6) = 32

C8_Witness ==
    /\ icoPc = "returned"
    /\ IcoN = 3
    /\ sizes[1] # sizes[2]
    /\ pngBuffers[1] # pngBuffers[3]
    /\ SubSeq(icoBuffer, 1, 4) = <<0, 0, 1, 0>>
    /\ SubSeq(icoBuffer, DirEntryAt(3) + 3, DirEntryAt(3) + 8) = <<0, 0, 1, 0, 32, 0>>

---------------------------------------------------------------------------
(* Claims about createIcns *)

\* The Type-Code Registry as the specification lists it: size -> the ASCII
\* bytes of its four-character code.
RegistrySizes == { 16, 32, 64, 128, 256, 512, 1024 }
RegistryCodeBytes(size) ==
    CASE size = 16   -> <<105, 99, 112, 52>>    \* icp4
      [] size = 32   -> <<105, 99, 112, 53>>    \* icp5
      [] size = 64   -> <<105, 99, 112, 54>>    \* icp6
      [] size = 128  -> <<105, 99, 48, 55>>     \* ic07
      [] size = 256  -> <<105, 99, 48, 56>>     \* ic08
      [] size = 512  -> <<105, 99, 48, 57>>     \* ic09
      [] size = 1024 -> <<105, 99, 49, 48>>     \* ic10

IcnsDone == icnsPc \in {"returned", "threw"}

\* The sizes of the input mapping that the registry knows.
IcnsMappedSizes == (DOMAIN pngsBySize) \cap RegistrySizes

RECURSIVE SumChunkLengths(_)
SumChunkLengths(S) ==
    IF S = {} THEN 0
    ELSE LET x == CHOOSE y \in S : TRUE
         IN  (8 + Len(pngsBySize[x])) + SumChunkLengths(S \ {x})

\* Walk the chunks of an ICNS buffer from byte offset `off`: each chunk is a
\* 4-byte type, a big-endian 32-bit length that counts its own 8-byte header,
\* and the data.  ok is FALSE when a length does not fit the buffer.
RECURSIVE WalkChunks(_, _, _)
WalkChunks(b, off, acc) ==
    IF off = Len(b) THEN [ok |-> TRUE, chunks |-> acc]
    ELSE IF off + 8 > Len(b) THEN [ok |-> FALSE, chunks |-> acc]
    ELSE LET len == ReadU32BE(b, off + 4)
         IN  IF len < 8 \/ off + len > Len(b) THEN [ok |-> FALSE, chunks |-> acc]
             ELSE WalkChunks(b, off + len,
                             Append(acc, [type   |-> Slice(b, off, 4),
                                          length |-> len,
                                          data   |-> Slice(b, off + 8, len - 8)]))

\* C9: for every input mapping createIcns returns a buffer whose first 4 bytes
\* are ASCII 'icns' and whose bytes 4..7, read as a big-endian 32-bit integer,
\* equal the buffer's total length, which is 8 + the sum over the emitted
\* chunks of (8 + the chunk's data length).
C9_MagicAndTotalLength ==
    IcnsDone =>
        /\ icnsPc = "returned"
        /\ Len(icnsBuffer) >= 8
        /\ SubSeq(icnsBuffer, 1, 4) = <<105, 99, 110, 115>>
        /\ ReadU32BE(icnsBuffer, 4) = Len(icnsBuffer)
        /\ Len(icnsBuffer) = 8 + SumChunkLengths(IcnsMappedSizes)

C9_Witness ==
    /\ icnsPc = "returned"
    /\ DOMAIN pngsBySize = {16, 32, 33}
    /\ Len(pngsBySize[16]) = 1 /\ Len(pngsBySize[32]) = 2 /\ Len(pngsBySize[33]) = 2
    /\ SubSeq(icnsBuffer, 1, 8) = <<105, 99, 110, 115, 0, 0, 0, 27>>
    /\ Len(icnsBuffer) = 27

\* C10: every chunk of the returned buffer is the 4-byte type code the
\* registry assigns to its size, then a big-endian 32-bit chunkLength equal to
\* 8 + the length of that size's data, then exactly that data; the chunks
\* follow each other from byte 8 to the end of the buffer with no gap.
C10_ChunkLayout ==
    icnsPc = "returned" =>
        LET walk == WalkChunks(icnsBuffer, 8, << >>)
        IN  /\ walk.ok
            /\ Len(walk.chunks) = Cardinality(IcnsMappedSizes)
            /\ \A k \in 1..Len(walk.chunks) :
                 \E size \in IcnsMappedSizes :
                    /\ walk.chunks[k].type = RegistryCodeBytes(size)
                    /\ walk.chunks[k].length = 8 + Len(pngsBySize[size])
                    /\ walk.chunks[k].data = pngsBySize[size]

C10_Witness ==
    /\ icnsPc = "returned"
    /\ DOMAIN pngsBySize = RegistrySizes
    /\ pngsBySize[16] = <<170>> /\ pngsBySize[128] = <<187, 204>> /\ pngsBySize[1024] = << >>
    /\ SubSeq(icnsBuffer, 9, 17) = <<105, 99, 112, 52, 0, 0, 0, 9, 170>>
    /\ Len(WalkChunks(icnsBuffer, 8, << >>).chunks) = 7

\* The registry size whose type code a chunk carries.
ChunkSize(chunk) == CHOOSE size \in RegistrySizes : RegistryCodeBytes(size) = chunk.type
IcnsWalk == WalkChunks(icnsBuffer, 8, << >>)

\* C11: when the input mapping holds a size that the Type-Code Registry does
\* not know (33 next to 16), createIcns raises nothing, that size contributes
\* no chunk (every chunk carries the code of a registry-mapped input size and
\* there are as many chunks as such sizes), and totalLength counts only the
\* chunks of the registry-mapped sizes.
C11_UnmappedSizeSkipped ==
    (IcnsDone /\ (DOMAIN pngsBySize) \ RegistrySizes # {}) =>
        /\ icnsPc = "returned"
        /\ LET walk == IcnsWalk
               codes == { RegistryCodeBytes(size) : size \in IcnsMappedSizes }
           IN  /\ walk.ok
               /\ Len(walk.chunks) = Cardinality(IcnsMappedSizes)
               /\ \A k \in 1..Len(walk.chunks) : walk.chunks[k].type \in codes
        /\ ReadU32BE(icnsBuffer, 4) = 8 + SumChunkLengths(IcnsMappedSizes)

C11_Witness ==
    /\ icnsPc = "returned"
    /\ DOMAIN pngsBySize = {16, 33}
    /\ pngsBySize[16] = <<170>>
    /\ pngsBySize[33] = <<187, 204>>
    /\ icnsBuffer = <<105, 99, 110, 115, 0, 0, 0, 17, 105, 99, 112, 52, 0, 0, 0, 9, 170>>

\* C12: the chunks of the returned buffer appear in strictly ascending order
\* of their size.
C12_AscendingOrder ==
    icnsPc = "returned" =>
        LET walk == IcnsWalk
            chunkSizes == [k \in 1..Len(walk.chunks) |-> ChunkSize(walk.chunks[k])]
        IN  /\ walk.ok
            /\ \A k \in 1..Len(walk.chunks) :
                 walk.chunks[k].type = RegistryCodeBytes(chunkSizes[k])
            /\ \A k \in 1..(Len(walk.chunks) - 1) : chunkSizes[k] < chunkSizes[k + 1]

C12_Witness ==
    /\ icnsPc = "returned"
    /\ DOMAIN pngsBySize = {16, 32}
    /\ Len(pngsBySize[16]) = 1
    /\ Len(pngsBySize[32]) = 2
    /\ Len(icnsBuffer) = 27
    /\ SubSeq(icnsBuffer, 9, 12) = <<105, 99, 112, 52>>
    /\ SubSeq(icnsBuffer, 18, 21) = <<105, 99, 112, 53>>

\* C13: every size that is in the registry and has an image in the input
\* mapping yields exactly one chunk, whatever the image's data length (a
\* zero-length buffer included).
C13_OneChunkPerMappedSize ==
    icnsPc = "returned" =>
        LET walk == IcnsWalk
            types == [k \in 1..Len(walk.chunks) |-> walk.chunks[k].type]
        IN  /\ walk.ok
            /\ \A size \in IcnsMappedSizes :
                 Cardinality({ k \in 1..Len(types) : types[k] = RegistryCodeBytes(size) }) = 1

C13_Witness ==
    /\ icnsPc = "returned"
    /\ DOMAIN pngsBySize = {64, 512}
    /\ pngsBySize[64] = << >>
    /\ pngsBySize[512] = << >>
    /\ icnsBuffer = <<105, 99, 110, 115, 0, 0, 0, 24,
                      105, 99, 112, 54, 0, 0, 0, 8, 105, 99, 48, 57, 0, 0, 0, 8>>

\* C14: when no size of the input mapping is in the registry (the empty
\* mapping included), createIcns does not fail and returns exactly 8 bytes:
\* 'icns' followed by totalLength = 8.
C14_EmptyContainer ==
    (IcnsDone /\ IcnsMappedSizes = {}) =>
        /\ icnsPc = "returned"
        /\ icnsBuffer = <<105, 99, 110, 115, 0, 0, 0, 8>>

C14_Witness ==
    /\ icnsPc = "returned"
    /\ DOMAIN pngsBySize = {33}
    /\ Len(icnsBuffer) = 8

---------------------------------------------------------------------------
(* Claims about both encoders *)

\* C16: createIco and createIcns leave their inputs unchanged: across either
\* call every input buffer keeps its length and bytes and the input list or
\* mapping keeps its entries.
C16_InputsUnchanged ==
    [][ /\ pngBuffers' = pngBuffers
        /\ sizes' = sizes
        /\ pngsBySize' = pngsBySize ]_vars

C16_Witness ==
    /\ icoPc = "returned"
    /\ pngBuffers = << <<170>>, <<187, 204>> >>
    /\ sizes = <<16, 256>>
    /\ Slice(icoBuffer, 38, 3) = <<170, 187, 204>>

---------------------------------------------------------------------------
(* Claims about generateIcons *)

GenTerminated == genPc \in {"done", "rejected"}

\* The toBuffer() requests issued so far for one format.
RequestsOf(format) == SelectSeq(requests, LAMBDA q : q.format = format)

IcoWritten == IcoPath \in DOMAIN files
IcnsWritten == IcnsPath \in DOMAIN files

\* C17: for each container format the encoder is not invoked until every
\* rasterization requested for that format's ladder has completed: the step
\* that calls createIco is taken with all 7 ICO requests issued, none in
\* flight and 7 buffers collected, and likewise the step calling createIcns.
C17_EncodeAfterAllRasterized ==
    [][ /\ icoPc' # icoPc =>
             /\ Len(RequestsOf("ico")) = 7
             /\ inFlight = << >>
             /\ Len(icoPngs) = 7
        /\ icnsPc' # icnsPc =>
             /\ Len(RequestsOf("icns")) = 7
             /\ inFlight = << >>
             /\ Cardinality(DOMAIN icnsPngs) = 7 ]_vars

C17_Witness ==
    /\ genPc = "icnsWrite"
    /\ icoPc = "returned"
    /\ icnsPc = "returned"
    /\ Len(pngBuffers) = 7
    /\ Cardinality(DOMAIN pngsBySize) = 7
    /\ Len(requests) = 14

\* C18: when the rasterization of one size of a format fails, that format's
\* encoder is never invoked and its file is never written in that run; a
\* container file that is written holds all 7 sizes of its ladder.
C18_RasterFailureStopsFormat ==
    /\ genError = "icoRaster" => (icoPc = "idle" /\ ~IcoWritten)
    /\ genError = "icnsRaster" => (icnsPc = "idle" /\ ~IcnsWritten)
    /\ IcoWritten =>
         /\ genError # "icoRaster"
         /\ ReadU16LE(files[IcoPath], 4) = 7
    /\ IcnsWritten =>
         /\ genError # "icnsRaster"
         /\ Len(WalkChunks(files[IcnsPath], 8, << >>).chunks) = 7

C18_Witness ==
    /\ genPc = "rejected"
    /\ genError = "icoRaster"
    /\ Len(icoPngs) = 3
    /\ Len(requests) = 4
    /\ icoPc = "idle"
    /\ ~IcoWritten

\* C19 as stated: a rasterization failure is fatal only for its own format:
\* a run in which an ICO rasterization failed, and no ICNS rasterization and
\* no write of icon.icns failed, ends with icon.icns produced.
C19_IcoRasterFailureSparesIcns ==
    (GenTerminated /\ genError = "icoRaster") => IcnsWritten

\* C20 as stated: a failure to write icon.ico is fatal for that file only: a
\* run in which writing icon.ico failed still rasterizes, encodes and writes
\* icon.icns.
C20_IcoWriteFailureSparesIcns ==
    (GenTerminated /\ genError = "icoWrite") =>
        /\ Len(RequestsOf("icns")) = 7
        /\ icnsPc = "returned"
        /\ IcnsWritten

\* The sizes of a sequence of requests, in the order they were issued.
SizesOf(reqs) == [i \in 1..Len(reqs) |-> reqs[i].size]

IsPrefix(a, b) == Len(a) <= Len(b) /\ a = SubSeq(b, 1, Len(a))

SeqRange(q) == { q[i] : i \in 1..Len(q) }

PngPaths == { PngTasks[i].path : i \in 1..Len(PngTasks) }

\* C21: there is no rollback across files: no step removes or changes a file
\* that was written earlier in the run; in particular a step that fails after
\* icon.ico was written (an ICNS rasterization or the icon.icns write) leaves
\* icon.ico and every PNG in place with the bytes they had.
C21_NoRollback ==
    [][ /\ \A p \in DOMAIN files : p \in DOMAIN files' /\ files'[p] = files[p]
        /\ (IcoWritten /\ genPc' = "rejected") => files' = files ]_vars

C21_Witness ==
    /\ genPc = "rejected"
    /\ genError = "icnsWrite"
    /\ IcoWritten
    /\ files[IcoPath] = icoBuffer
    /\ PngPaths \subseteq DOMAIN files
    /\ ~IcnsWritten

\* C22: when the vector source cannot be read the whole run is aborted: no
\* rasterization was requested (neither to a file nor to a buffer), neither
\* encoder was invoked and no file was written.
C22_SourceUnavailableAbortsRun ==
    genError = "SourceUnavailable" =>
        /\ genPc = "rejected"
        /\ genIdx = 0
        /\ inFlight = << >>
        /\ requests = << >>
        /\ icoPngs = << >>
        /\ icnsPngs = << >>
        /\ icoPc = "idle"
        /\ icnsPc = "idle"
        /\ files = << >>

C22_Witness ==
    /\ genPc = "rejected"
    /\ genError = "SourceUnavailable"
    /\ files = << >>
    /\ requests = << >>

\* C23: the rasterizer is asked once for each size of the Windows ladder and
\* then once for each size of the Apple ladder, in ladder order (the requests
\* so far are a prefix of the two ladders, hence no size is asked twice for a
\* format); the image set handed to createIco pairs the i-th ladder size with
\* the buffer rendered for it, and the set handed to createIcns holds exactly
\* the Apple ladder's sizes, each with the buffer rendered for it.
C23_ExactlyTheLadders ==
    /\ IsPrefix(SizesOf(RequestsOf("ico")), icoSizes)
    /\ IsPrefix(SizesOf(RequestsOf("icns")), icnsSizes)
    /\ IsPrefix(requests, RequestsOf("ico") \o RequestsOf("icns"))
    /\ icoPc # "idle" =>
         /\ SizesOf(RequestsOf("ico")) = icoSizes
         /\ sizes = icoSizes
         /\ Cardinality(SeqRange(sizes)) = Len(sizes)
         /\ pngBuffers = [i \in 1..Len(icoSizes) |-> Render(icoSizes[i])]
    /\ icnsPc # "idle" =>
         /\ SizesOf(RequestsOf("icns")) = icnsSizes
         /\ DOMAIN pngsBySize = SeqRange(icnsSizes)
         /\ \A s \in DOMAIN pngsBySize : pngsBySize[s] = Render(s)

C23_Witness ==
    /\ genPc = "done"
    /\ SizesOf(requests) = icoSizes \o icnsSizes
    /\ pngBuffers[2] = Render(24)
    /\ pngsBySize[1024] = Render(1024)

\* C24: rasterizations are requested strictly one at a time: at most one is
\* in flight, and a step that issues a request is taken with none in flight
\* and with every earlier request of that format answered by its buffer.
C24_OneRequestAtATime ==
    [][ /\ Len(inFlight) <= 1
        /\ Len(inFlight') <= 1
        /\ requests' # requests =>
             /\ inFlight = << >>
             /\ Len(requests') = Len(requests) + 1
             /\ Len(RequestsOf("ico")) = Len(icoPngs)
             /\ Len(RequestsOf("icns")) = Cardinality(DOMAIN icnsPngs) ]_vars

C24_Witness ==
    /\ genPc = "icnsRaster"
    /\ Len(inFlight) = 1
    /\ inFlight[1].size = 64
    /\ Len(RequestsOf("icns")) = 3
    /\ DOMAIN icnsPngs = {16, 32}

\* C25: every size of the Apple ladder is a key of the type-code registry of
\* createIcns, so whenever generateIcons has encoded icon.icns the buffer
\* holds exactly 7 chunks, one per ladder size in ladder order, each holding
\* the buffer rendered for that size.
C25_NoLadderSizeDropped ==
    /\ SeqRange(icnsSizes) \subseteq { parseInt(icnsTypes[i].size) : i \in 1..Len(icnsTypes) }
    /\ (genPc \in {"icnsWrite", "done"} \/ genError = "icnsWrite") =>
         LET chunks == WalkChunks(icnsBuffer, 8, << >>).chunks
         IN  /\ icnsPc = "returned"
             /\ Len(chunks) = Len(icnsSizes)
             /\ \A i \in 1..Len(chunks) :
                  /\ chunks[i].type = RegistryCodeBytes(icnsSizes[i])
                  /\ chunks[i].data = Render(icnsSizes[i])

C25_Witness ==
    /\ genPc = "done"
    /\ IcnsWritten
    /\ Len(WalkChunks(files[IcnsPath], 8, << >>).chunks) = 7

\* What the fixed stage order and the stop at the first failure leave on disk.
StagesInOrder ==
    /\ \E k \in 0..Len(PngTasks) :
          DOMAIN files \ {IcoPath, IcnsPath} = { PngTasks[i].path : i \in 1..k }
    /\ IcoWritten => PngPaths \subseteq DOMAIN files
    /\ IcnsWritten => IcoWritten
    /\ genError \in {"SourceUnavailable", "mkdir", "png", "icoRaster", "icoEncode", "icoWrite"}
          => (~IcoWritten /\ ~IcnsWritten)
    /\ genError \in {"icnsRaster", "icnsEncode", "icnsWrite"} => ~IcnsWritten
    /\ genError # "none" => genPc = "rejected"

\* C26: the stages run in one fixed order and the run stops at the first
\* failure: the PNG files on disk are those of a prefix of the PNG stages,
\* icon.ico is there only with all of them, icon.icns only with icon.ico, a
\* failure before or in the ICO stage leaves neither container and a failure
\* in the ICNS stage leaves no icon.icns; a rejected run takes no more steps.
C26_FixedOrderStopAtFirstFailure ==
    [][ StagesInOrder /\ StagesInOrder' /\ genPc # "rejected" ]_vars

C26_Witness ==
    /\ genPc = "rejected"
    /\ genError = "png"
    /\ Cardinality(DOMAIN files) = 20
    /\ ~IcoWritten
    /\ icoPc = "idle"

---------------------------------------------------------------------------
(* scripts/generate-icons.js: the single-size script.  A string that the   *)
(* code takes apart (String.replace) is the sequence of its characters; a  *)
(* path is the string below the repository root.                           *)

\* join(__dirname, '../src-tauri/icons')
ICONS_DIR == << "s", "r", "c", "-", "t", "a", "u", "r", "i", "/", "i", "c", "o", "n", "s" >>

\* path.join(dir, name)
join(dir, name) == dir \o << "/" >> \o name

ICON_SIZES ==
    << [size |-> 32,  name |-> << "3", "2", "x", "3", "2", ".", "p", "n", "g" >>],
       [size |-> 64,  name |-> << "6", "4", "x", "6", "4", ".", "p", "n", "g" >>],
       [size |-> 128, name |-> << "1", "2", "8", "x", "1", "2", "8", ".", "p", "n", "g" >>],
       [size |-> 256, name |-> << "1", "2", "8", "x", "1", "2", "8", "@", "2", "x", ".", "p", "n", "g" >>],
       [size |-> 512, name |-> << "i", "c", "o", "n", ".", "p", "n", "g" >>] >>

\* The first index at which pattern occurs in str, 0 when it does not occur.
IndexOf(str, pattern) ==
    LET hits == { i \in 1..(Len(str) - Len(pattern) + 1) :
                     SubSeq(str, i, i + Len(pattern) - 1) = pattern }
    IN  IF hits = {} THEN 0 ELSE CHOOSE i \in hits : \A j \in hits : i <= j

\* A faulty variant of the next definition: nothing is replaced.
StringReplaceNothing(str, pattern, replacement) == str
\* str.replace(pattern, replacement) with a string pattern: the first
\* occurrence only.
StringReplace(str, pattern, replacement) ==
    LET at == IndexOf(str, pattern)
    IN  IF at = 0 THEN str
        ELSE SubSeq(str, 1, at - 1) \o replacement
               \o SubSeq(str, at + Len(pattern), Len(str))

\* const icoPath = join(ICONS_DIR, 'icon.ico')
icoPath == join(ICONS_DIR, << "i", "c", "o", "n", ".", "i", "c", "o" >>)

\* const icnsBasePath = join(ICONS_DIR, 'icon.icns')
icnsBasePath == join(ICONS_DIR, << "i", "c", "o", "n", ".", "i", "c", "n", "s" >>)

\* icoPath.replace('.ico', '-256.png')
IcoPngPath == StringReplace(icoPath, << ".", "i", "c", "o" >>, << "-", "2", "5", "6", ".", "p", "n", "g" >>)

\* What an earlier run or build may have left on disk, with its old content.
StaleContent == << 0 >>
StalePaths == { icoPath, icnsBasePath, join(ICONS_DIR, ICON_SIZES[5].name), IcoPngPath }

ScriptReject ==
    /\ scriptPc' = "rejected"
    /\ scriptPending' = FALSE

InitScript ==
    /\ scriptPc = "start"
    /\ scriptIdx = 0
    /\ scriptPending = FALSE
    /\ \E old \in SUBSET StalePaths : disk = [p \in old |-> StaleContent]
    /\ scriptWritten = {}
    /\ consoleLog = << >>
    /\ IcoIdle
    /\ IcnsIdle
    /\ GenIdle
    /\ UiIdle

\* console.log('Generating Doggy icons...'); readFileSync(SVG_PATH); console.log
ScriptReadSvg ==
    /\ scriptPc = "start"
    /\ scriptPc' = "pngs"
    /\ consoleLog' = consoleLog \o << <<"Generating Doggy icons...">>, <<"Read SVG">> >>
    /\ UNCHANGED <<scriptIdx, scriptPending, disk, scriptWritten, encVars, genVars, uiVars>>

\* ... readFileSync throws
ScriptReadSvgFails ==
    /\ scriptPc = "start"
    /\ ScriptReject
    /\ consoleLog' = Append(consoleLog, <<"Generating Doggy icons...">>)
    /\ UNCHANGED <<scriptIdx, disk, scriptWritten, encVars, genVars, uiVars>>

\* for (const { size, name } of ICON_SIZES): await sharp(...).toFile(outputPath) issued
ScriptIssuePng ==
    /\ scriptPc = "pngs"
    /\ ~scriptPending
    /\ scriptPending' = TRUE
    /\ UNCHANGED <<scriptPc, scriptIdx, disk, scriptWritten, consoleLog, encVars, genVars, uiVars>>

\* ... fulfilled: the file is on disk, console.log(`Generated ${name} ...`)
ScriptPngDone ==
    /\ scriptPc = "pngs"
    /\ scriptPending
    /\ LET icon == ICON_SIZES[scriptIdx + 1]
           outputPath == join(ICONS_DIR, icon.name)
       IN  /\ disk' = (outputPath :> Render(icon.size)) @@ disk
           /\ scriptWritten' = scriptWritten \cup { outputPath }
           /\ consoleLog' = Append(consoleLog, <<"Generated", icon.name>>)
    /\ scriptPending' = FALSE
    /\ IF scriptIdx + 1 = Len(ICON_SIZES)
       THEN scriptPc' = "icoPng" /\ scriptIdx' = 0
       ELSE scriptPc' = scriptPc /\ scriptIdx' = scriptIdx + 1
    /\ UNCHANGED <<encVars, genVars, uiVars>>

\* ... rejected
ScriptPngFails ==
    /\ scriptPc = "pngs"
    /\ scriptPending
    /\ ScriptReject
    /\ UNCHANGED <<scriptIdx, disk, scriptWritten, consoleLog, encVars, genVars, uiVars>>

\* await sharp(svgBuffer).resize(256, 256).png().toFile(icoPath.replace(...)) issued
ScriptIssueIcoPng ==
    /\ scriptPc = "icoPng"
    /\ ~scriptPending
    /\ scriptPending' = TRUE
    /\ UNCHANGED <<scriptPc, scriptIdx, disk, scriptWritten, consoleLog, encVars, genVars, uiVars>>

\* The lines logged after the 256 px file: lines 58, 64, 66, 67 and the
\* forEach over ICON_SIZES.
ScriptClosingLog ==
    << <<"Generated icon.ico (256x256 PNG base)">>,
       <<"icon.icns will be generated during Tauri build from icon.png">>,
       <<"Icon generation complete!">>,
       <<"Generated icons:">> >>
    \o [i \in 1..Len(ICON_SIZES) |-> <<"-", ICON_SIZES[i].name>>]

\* ... fulfilled: the rest of the function only logs, then returns
ScriptIcoPngDone ==
    /\ scriptPc = "icoPng"
    /\ scriptPending
    /\ disk' = (IcoPngPath :> Render(256)) @@ disk
    /\ scriptWritten' = scriptWritten \cup { IcoPngPath }
    /\ consoleLog' = consoleLog \o ScriptClosingLog
    /\ scriptPending' = FALSE
    /\ scriptPc' = "done"
    /\ UNCHANGED <<scriptIdx, encVars, genVars, uiVars>>

\* ... rejected
ScriptIcoPngFails ==
    /\ scriptPc = "icoPng"
    /\ scriptPending
    /\ ScriptReject
    /\ UNCHANGED <<scriptIdx, disk, scriptWritten, consoleLog, encVars, genVars, uiVars>>

NextScript ==
    \/ ScriptReadSvg \/ ScriptReadSvgFails
    \/ ScriptIssuePng \/ ScriptPngDone \/ ScriptPngFails
    \/ ScriptIssueIcoPng \/ ScriptIcoPngDone \/ ScriptIcoPngFails

SpecScript == InitScript /\ [][NextScript]_vars

---------------------------------------------------------------------------
(* Claim about generate-icons.js *)

\* The part of a path after its last "/".
BaseName(path) ==
    LET slashes == { i \in 1..Len(path) : path[i] = "/" }
        last == IF slashes = {} THEN 0 ELSE CHOOSE i \in slashes : \A j \in slashes : j <= i
    IN  SubSeq(path, last + 1, Len(path))

\* The six files of a complete run, written out.
ScriptPngPaths ==
    { << "s", "r", "c", "-", "t", "a", "u", "r", "i", "/", "i", "c", "o", "n", "s", "/", "3", "2", "x", "3", "2", ".", "p", "n", "g" >>,
      << "s", "r", "c", "-", "t", "a", "u", "r", "i", "/", "i", "c", "o", "n", "s", "/", "6", "4", "x", "6", "4", ".", "p", "n", "g" >>,
      << "s", "r", "c", "-", "t", "a", "u", "r", "i", "/", "i", "c", "o", "n", "s", "/", "1", "2", "8", "x", "1", "2", "8", ".", "p", "n", "g" >>,
      << "s", "r", "c", "-", "t", "a", "u", "r", "i", "/", "i", "c", "o", "n", "s", "/", "1", "2", "8", "x", "1", "2", "8", "@", "2", "x", ".", "p", "n", "g" >>,
      << "s", "r", "c", "-", "t", "a", "u", "r", "i", "/", "i", "c", "o", "n", "s", "/", "i", "c", "o", "n", ".", "p", "n", "g" >>,
      << "s", "r", "c", "-", "t", "a", "u", "r", "i", "/", "i", "c", "o", "n", "s", "/", "i", "c", "o", "n", "-", "2", "5", "6", ".", "p", "n", "g" >> }

---------------------------------------------------------------------------
(* The React component LLMGatewaySettings.  A state variable of useState is *)
(* a variable; a handler reads the values of the render it was created in,  *)
(* which for a click is the current state, and after an await still is that *)
(* render's value: a pending call therefore carries what it captured.  The  *)
(* backend behind apiCall is the environment: it answers each call with a  *)
(* value drawn from a small set, or rejects.                                *)

\* How many calls to the backend may be pending at once.
MaxPending == 2

ProviderIds == { "openai", "gemini" }
ApiKeySamples == { "", "sk-1" }

ProviderConfig(id, key) == [provider |-> id, api_key |-> key]

\* What get_llm_gateway_settings may answer.
SettingsSamples ==
    { [enabled |-> e, providers |-> ps] :
        e \in BOOLEAN,
        ps \in { << >>,
                 << ProviderConfig("openai", "sk-1") >>,
                 << ProviderConfig("openai", "sk-1"), ProviderConfig("gemini", "sk-1") >> } }

\* What get_llm_gateway_status may answer.
StatusSamples == { [running |-> r, provider_status |-> << >>] : r \in BOOLEAN }

\* What test_llm_provider may answer (ProviderStatus.available).
TestResultSamples == { "available", "unavailable" }

\* What get_default_llm_providers may answer.
DefaultProvidersSamples ==
    { << ProviderConfig("openai", ""), ProviderConfig("gemini", "") >>,
      << ProviderConfig("gemini", "") >> }

\* What a rejected call may throw: an Error with a message, or another value.
ThrownSamples == { [isError |-> TRUE, message |-> "connection refused"],
                   [isError |-> FALSE, message |-> ""] }

\* err instanceof Error ? err.message : fallback
ErrorMessage(err, fallback) == IF err.isError THEN err.message ELSE fallback

RemoveAt(q, i) == SubSeq(q, 1, i - 1) \o SubSeq(q, i + 1, Len(q))

PendingCount == Len(addOps) + Len(testOps) + Len(toggleOps) + refreshOps

\* The component shows its controls: neither the spinner nor the failure text.
Rendered == ~loading /\ settings # NullObject

\* The mounted component: useState initial values, loadData() under way.
InitUi ==
    /\ settings = NullObject
    /\ status = NullObject
    /\ loading = TRUE
    /\ saving = FALSE
    /\ testingProvider = Null
    /\ error = Null
    /\ addOps = << >>
    /\ testOps = << >>
    /\ toggleOps = << >>
    /\ refreshOps = 0
    /\ IcoIdle
    /\ IcnsIdle
    /\ GenIdle
    /\ ScriptIdle

\* loadData: Promise.all resolved
loadDataResolved ==
    /\ loading
    /\ settings' \in SettingsSamples
    /\ status' \in StatusSamples
    /\ error' = Null
    /\ loading' = FALSE
    /\ UNCHANGED <<saving, testingProvider, addOps, testOps, toggleOps, refreshOps,
                   encVars, genVars, scriptVars>>

\* loadData: Promise.all rejected
loadDataRejected ==
    /\ loading
    /\ \E err \in ThrownSamples : error' = ErrorMessage(err, "Failed to load settings")
    /\ loading' = FALSE
    /\ UNCHANGED <<settings, status, saving, testingProvider, addOps, testOps, toggleOps,
                   refreshOps, encVars, genVars, scriptVars>>

\* setInterval callback of the auto-refresh effect: getGatewayStatus() issued
refreshTick ==
    /\ status # NullObject
    /\ status.running
    /\ PendingCount < MaxPending
    /\ refreshOps' = refreshOps + 1
    /\ UNCHANGED <<settings, status, loading, saving, testingProvider, error, addOps,
                   testOps, toggleOps, encVars, genVars, scriptVars>>

refreshResolved ==
    /\ refreshOps > 0
    /\ status' \in StatusSamples
    /\ refreshOps' = refreshOps - 1
    /\ UNCHANGED <<settings, loading, saving, testingProvider, error, addOps, testOps,
                   toggleOps, encVars, genVars, scriptVars>>

refreshRejected ==
    /\ refreshOps > 0
    /\ refreshOps' = refreshOps - 1
    /\ UNCHANGED <<settings, status, loading, saving, testingProvider, error, addOps,
                   testOps, toggleOps, encVars, genVars, scriptVars>>

\* handleSave up to its await (the button is disabled while saving)
handleSave ==
    /\ Rendered
    /\ ~saving
    /\ saving' = TRUE
    /\ UNCHANGED <<settings, status, loading, testingProvider, error, addOps, testOps,
                   toggleOps, refreshOps, encVars, genVars, scriptVars>>

handleSaveResolved ==
    /\ saving
    /\ error' = Null
    /\ saving' = FALSE
    /\ UNCHANGED <<settings, status, loading, testingProvider, addOps, testOps,
                   toggleOps, refreshOps, encVars, genVars, scriptVars>>

handleSaveRejected ==
    /\ saving
    /\ \E err \in ThrownSamples : error' = ErrorMessage(err, "Failed to save settings")
    /\ saving' = FALSE
    /\ UNCHANGED <<settings, status, loading, testingProvider, addOps, testOps,
                   toggleOps, refreshOps, encVars, genVars, scriptVars>>

\* handleToggleGateway up to its first await (the button is disabled unless
\* settings.enabled): stopGateway() or startGateway() issued
handleToggleGateway ==
    /\ Rendered
    /\ settings.enabled
    /\ PendingCount < MaxPending
    /\ toggleOps' = Append(toggleOps,
                           [call  |-> IF status # NullObject /\ status.running
                                      THEN "stop" ELSE "start",
                            phase |-> "call"])
    /\ UNCHANGED <<settings, status, loading, saving, testingProvider, error, addOps,
                   testOps, refreshOps, encVars, genVars, scriptVars>>

\* ... the start/stop call resolved: getGatewayStatus() issued
handleToggleGatewayCallResolved ==
    /\ \E i \in 1..Len(toggleOps) :
          /\ toggleOps[i].phase = "call"
          /\ toggleOps' = [toggleOps EXCEPT ![i].phase = "status"]
    /\ UNCHANGED <<settings, status, loading, saving, testingProvider, error, addOps,
                   testOps, refreshOps, encVars, genVars, scriptVars>>

\* ... the start/stop call rejected: catch
handleToggleGatewayCallRejected ==
    /\ \E i \in 1..Len(toggleOps) :
          /\ toggleOps[i].phase = "call"
          /\ toggleOps' = RemoveAt(toggleOps, i)
    /\ \E err \in ThrownSamples : error' = ErrorMessage(err, "Failed to toggle gateway")
    /\ UNCHANGED <<settings, status, loading, saving, testingProvider, addOps,
                   testOps, refreshOps, encVars, genVars, scriptVars>>

\* ... getGatewayStatus() resolved: setStatus(statusData)
handleToggleGatewayStatusResolved ==
    /\ \E i \in 1..Len(toggleOps) :
          /\ toggleOps[i].phase = "status"
          /\ toggleOps' = RemoveAt(toggleOps, i)
    /\ status' \in StatusSamples
    /\ UNCHANGED <<settings, loading, saving, testingProvider, error, addOps,
                   testOps, refreshOps, encVars, genVars, scriptVars>>

\* A faulty variant of the next definition: the catch also drops the status.
handleToggleGatewayStatusRejectedClears ==
    /\ \E i \in 1..Len(toggleOps) :
          /\ toggleOps[i].phase = "status"
          /\ toggleOps' = RemoveAt(toggleOps, i)
    /\ \E err \in ThrownSamples : error' = ErrorMessage(err, "Failed to toggle gateway")
    /\ status' = NullObject
    /\ UNCHANGED <<settings, loading, saving, testingProvider, addOps,
                   testOps, refreshOps, encVars, genVars, scriptVars>>
\* ... getGatewayStatus() rejected: catch
handleToggleGatewayStatusRejected ==
    /\ \E i \in 1..Len(toggleOps) :
          /\ toggleOps[i].phase = "status"
          /\ toggleOps' = RemoveAt(toggleOps, i)
    /\ \E err \in ThrownSamples : error' = ErrorMessage(err, "Failed to toggle gateway")
    /\ UNCHANGED <<settings, status, loading, saving, testingProvider, addOps,
                   testOps, refreshOps, encVars, genVars, scriptVars>>

\* handleTestProvider(provider) up to its await; the card's button is
\* disabled while testingProvider is this provider or it has no api_key
handleTestProvider ==
    /\ Rendered
    /\ PendingCount < MaxPending
    /\ \E index \in 1..Len(settings.providers) :
          LET provider == settings.providers[index]
          IN  /\ testingProvider # provider.provider
              /\ provider.api_key # ""
              /\ testingProvider' = provider.provider
              /\ testOps' = Append(testOps, provider)
    /\ UNCHANGED <<settings, status, loading, saving, error, addOps, toggleOps,
                   refreshOps, encVars, genVars, scriptVars>>

\* ... testProvider() resolved: setStatus(prev => ...), finally setTestingProvider(null)
handleTestProviderResolved ==
    /\ \E i \in 1..Len(testOps), result \in TestResultSamples :
          /\ status' = IF status # NullObject
                       THEN [status EXCEPT !.provider_status =
                                (testOps[i].provider :> result) @@ @]
                       ELSE NullObject
          /\ testOps' = RemoveAt(testOps, i)
    /\ testingProvider' = Null
    /\ UNCHANGED <<settings, loading, saving, error, addOps, toggleOps,
                   refreshOps, encVars, genVars, scriptVars>>

\* ... testProvider() rejected: console.error, finally setTestingProvider(null)
handleTestProviderRejected ==
    /\ \E i \in 1..Len(testOps) : testOps' = RemoveAt(testOps, i)
    /\ testingProvider' = Null
    /\ UNCHANGED <<settings, status, loading, saving, error, addOps, toggleOps,
                   refreshOps, encVars, genVars, scriptVars>>

\* handleUpdateProvider(index, provider), here from the api_key input of a card
handleUpdateProvider ==
    /\ Rendered
    /\ \E index \in 1..Len(settings.providers), key \in ApiKeySamples :
          LET provider == [settings.providers[index] EXCEPT !.api_key = key]
              newProviders == [settings.providers EXCEPT ![index] = provider]
          IN  /\ provider # settings.providers[index]
              /\ settings' = [settings EXCEPT !.providers = newProviders]
    /\ UNCHANGED <<status, loading, saving, testingProvider, error, addOps, testOps,
                   toggleOps, refreshOps, encVars, genVars, scriptVars>>

\* handleRemoveProvider(index)
handleRemoveProvider ==
    /\ Rendered
    /\ \E index \in 1..Len(settings.providers) :
          settings' = [settings EXCEPT !.providers = RemoveAt(settings.providers, index)]
    /\ UNCHANGED <<status, loading, saving, testingProvider, error, addOps, testOps,
                   toggleOps, refreshOps, encVars, genVars, scriptVars>>

\* onChange of a general setting, here the Enable Gateway switch:
\* setSettings({ ...settings, enabled: e.target.checked })
changeGeneralSetting ==
    /\ Rendered
    /\ settings' = [settings EXCEPT !.enabled = ~@]
    /\ UNCHANGED <<status, loading, saving, testingProvider, error, addOps, testOps,
                   toggleOps, refreshOps, encVars, genVars, scriptVars>>

\* handleAddProvider up to its await: the call keeps the settings of its render
handleAddProvider ==
    /\ Rendered
    /\ PendingCount < MaxPending
    /\ addOps' = Append(addOps, settings)
    /\ UNCHANGED <<settings, status, loading, saving, testingProvider, error, testOps,
                   toggleOps, refreshOps, encVars, genVars, scriptVars>>

\* defaults.find(p => !existingProviders.has(p.provider)): the index of the
\* first default that the captured settings do not hold, 0 when there is none
FindNewProvider(captured, defaults) ==
    LET existingProviders == { captured.providers[k].provider : k \in 1..Len(captured.providers) }
        fresh == { k \in 1..Len(defaults) : defaults[k].provider \notin existingProviders }
    IN  IF fresh = {} THEN 0 ELSE CHOOSE k \in fresh : \A j \in fresh : k <= j

\* ... getDefaultProviders() resolved: setSettings({ ...settings, providers:
\* [...settings.providers, newProvider] }) with the captured settings
handleAddProviderResolved ==
    /\ \E i \in 1..Len(addOps), defaults \in DefaultProvidersSamples :
          LET captured == addOps[i]
              found == FindNewProvider(captured, defaults)
          IN  /\ settings' = IF found = 0 THEN settings
                             ELSE [captured EXCEPT !.providers = Append(@, defaults[found])]
              /\ addOps' = RemoveAt(addOps, i)
    /\ UNCHANGED <<status, loading, saving, testingProvider, error, testOps,
                   toggleOps, refreshOps, encVars, genVars, scriptVars>>

\* ... getDefaultProviders() rejected: console.error
handleAddProviderRejected ==
    /\ \E i \in 1..Len(addOps) : addOps' = RemoveAt(addOps, i)
    /\ UNCHANGED <<settings, status, loading, saving, testingProvider, error, testOps,
                   toggleOps, refreshOps, encVars, genVars, scriptVars>>

\* The settings half of the component: loading, the edits of `settings` and
\* Add Provider.
NextUiSettings ==
    \/ loadDataResolved \/ loadDataRejected
    \/ handleUpdateProvider \/ handleRemoveProvider \/ changeGeneralSetting
    \/ handleAddProvider \/ handleAddProviderResolved \/ handleAddProviderRejected

SpecUiSettings == InitUi /\ [][NextUiSettings]_vars

\* The gateway half of the component: loading, the status refresh, Save, the
\* gateway toggle, the provider tests and the edits of `settings`; only Add
\* Provider is left out.
NextUiGateway ==
    \/ loadDataResolved \/ loadDataRejected
    \/ refreshTick \/ refreshResolved \/ refreshRejected
    \/ handleSave \/ handleSaveResolved \/ handleSaveRejected
    \/ handleToggleGateway \/ handleToggleGatewayCallResolved
    \/ handleToggleGatewayCallRejected
    \/ handleToggleGatewayStatusResolved \/ handleToggleGatewayStatusRejected
    \/ handleTestProvider \/ handleTestProviderResolved \/ handleTestProviderRejected
    \/ handleUpdateProvider \/ handleRemoveProvider \/ changeGeneralSetting

SpecUiGateway == InitUi /\ [][NextUiGateway]_vars

---------------------------------------------------------------------------
(* Claims about LLMGatewaySettings *)

\* C28 as stated: when a pending handleAddProvider call completes and
\* changes the settings, the new settings are the current ones with one
\* provider appended: every edit made since the click (a general setting, a
\* provider's fields, a removal) is still there.
C28_AddKeepsNewerEdits ==
    [][ (Len(addOps') < Len(addOps) /\ settings' # settings) =>
            /\ settings'.enabled = settings.enabled
            /\ Len(settings'.providers) = Len(settings.providers) + 1
            /\ SubSeq(settings'.providers, 1, Len(settings.providers)) = settings.providers
      ]_vars

\* C29 as stated: while a test of a provider is in flight, testingProvider is
\* that provider's id.
C29_IndicatorHeldWhileTesting ==
    \A i \in 1..Len(testOps) : testingProvider = testOps[i].provider

\* C30: handleToggleGateway issues stopGateway when the status it sees says
\* running and startGateway otherwise, leaving status and error alone; when
\* that call resolves it only goes on to getGatewayStatus; it ends either by
\* replacing the status with the answer of that getGatewayStatus, error
\* untouched, or, when the start/stop call or the refresh was rejected, by
\* setting the error message with the status left as it was.
C30_ToggleGateway ==
    [][ /\ Len(toggleOps') > Len(toggleOps) =>
             /\ toggleOps' = Append(toggleOps,
                                    [call  |-> IF status # NullObject /\ status.running
                                               THEN "stop" ELSE "start",
                                     phase |-> "call"])
             /\ status' = status
             /\ error' = error
        /\ (Len(toggleOps') = Len(toggleOps) /\ toggleOps' # toggleOps) =>
             /\ \E i \in 1..Len(toggleOps) :
                   /\ toggleOps[i].phase = "call"
                   /\ toggleOps' = [toggleOps EXCEPT ![i].phase = "status"]
             /\ status' = status
             /\ error' = error
        /\ Len(toggleOps') < Len(toggleOps) =>
             \E i \in 1..Len(toggleOps) :
                /\ toggleOps' = RemoveAt(toggleOps, i)
                /\ \/ /\ toggleOps[i].phase = "status"
                      /\ status' \in StatusSamples
                      /\ error' = error
                   \/ /\ status' = status
                      /\ error' \in { "connection refused", "Failed to toggle gateway" }
      ]_vars

C30_Witness ==
    /\ error = "Failed to toggle gateway"
    /\ status # NullObject
    /\ status.running
    /\ toggleOps = << >>
    /\ settings.enabled

=============================================================================
